---- MODULE Spec2Model ----
(***************************************************************************)
(* Model of Rooms.py: the two WebSocket handlers websocket_endpoint (the   *)
(* room-message channel) and websocket_rooms (the room-feed channel), the  *)
(* module-level registries active_connections / active_connections_rooms   *)
(* they share, and the Room / User / Message tables they read and write.   *)
(*                                                                         *)
(* Every handler is an asyncio coroutine: it runs without interruption     *)
(* between two awaits (accept, receive_text, send_text), so one action of  *)
(* the model is the code from one await to the next.  db.commit() is a     *)
(* blocking call and is therefore inside the action that reaches it.       *)
(***************************************************************************)
EXTENDS Integers, Sequences, FiniteSets, TLC

\* ---- bounds of the model ------------------------------------------------
NumSessions == 2        \* WebSocket sessions (one connection each)
MaxMessages == 2        \* rows the message table may hold
MaxRooms == 2           \* rows the room table may hold

Sessions == 1 .. NumSessions
None == 0                             \* Python None / absent row
UserIds == {1, 2, 3}                  \* user_id path parameters tried
RoomIds == {1, 2}                     \* room_id path parameters tried
Texts == {"a", "b"}                   \* inbound text frames
InitUsers == {1, 2}                   \* ids of the rows of table "user"
RestTexts == {"b"}                    \* content / name posted to the create routes
RestOwners == {2, 3}                  \* owner posted to the create routes
InitRooms == << [id |-> 1, name |-> "a", owner |-> 1] >>

VARIABLES
    room_table,                \* rows of table "room", in insertion order
    message_table,             \* rows of table "message", in insertion order
    active_connections,        \* dict room_id -> list of websockets
    active_connections_rooms,  \* dict user_id -> list of websockets
    sess,                      \* per session: the coroutine's position and locals
    open,                      \* per connection: the client's transport is up
    sent,                      \* history: every send_text call, in call order
    fan,                       \* history: per running fan-out, who stayed registered
    hist,                      \* history: per session, unregister count and the like
    rest                       \* history: the rows committed by create_message / create_room

vars == << room_table, message_table, active_connections,
           active_connections_rooms, sess, open, sent, fan, hist, rest >>

\* ---- pure helpers --------------------------------------------------------
Range(seq) == { seq[i] : i \in 1 .. Len(seq) }

\* RoomFirst with a fault: the lookup never comes back empty
RoomFirst_NeverNone(rooms, room_id) == room_id

\* db.query(Room).filter(Room.id == room_id).first(): the row's id, or None
RoomFirst(rooms, room_id) ==
    IF \E i \in 1 .. Len(rooms) : rooms[i].id = room_id THEN room_id ELSE None

\* db.query(User).filter(User.id == user_id).first(): the row's id, or None
UserFirst(user_id) ==
    IF user_id \in InitUsers THEN user_id ELSE None

\* Register with a fault: every connection is listed under key 1
Register_WrongKey(d, key, websocket) ==
    IF 1 \in DOMAIN d
    THEN [d EXCEPT ![1] = Append(@, websocket)]
    ELSE d @@ (1 :> << websocket >>)

\* Register with a fault: the connection is appended a second time
Register_Twice(d, key, websocket) ==
    IF key \in DOMAIN d
    THEN [d EXCEPT ![key] = Append(Append(@, websocket), websocket)]
    ELSE d @@ (key :> << websocket, websocket >>)

\* if key not in d: d[key] = []; d[key].append(websocket)
Register(d, key, websocket) ==
    IF key \in DOMAIN d
    THEN [d EXCEPT ![key] = Append(@, websocket)]
    ELSE d @@ (key :> << websocket >>)

\* index of the first occurrence of websocket in list (0 when absent)
IndexOf(list, websocket) ==
    IF \E i \in 1 .. Len(list) : list[i] = websocket
    THEN CHOOSE i \in 1 .. Len(list) :
            /\ list[i] = websocket
            /\ \A j \in 1 .. (i - 1) : list[j] # websocket
    ELSE 0

\* ListRemove with a fault: the last item is dropped, whichever it is
ListRemove_Pop(list, websocket) == SubSeq(list, 1, Len(list) - 1)

\* list.remove(websocket): drops the first occurrence, later items move down
ListRemove(list, websocket) ==
    LET k == IndexOf(list, websocket) IN
    [i \in 1 .. (Len(list) - 1) |-> IF i < k THEN list[i] ELSE list[i + 1]]

\* list.remove raises (KeyError on the dict, ValueError on the list) when absent
CanRemove(d, key, websocket) ==
    /\ key \in DOMAIN d
    /\ IndexOf(d[key], websocket) # 0

\* Unregister with a fault: the except clause leaves the list as it is
Unregister_Keeps(d, key, websocket) == d

\* d[key].remove(websocket)
Unregister(d, key, websocket) ==
    [d EXCEPT ![key] = ListRemove(@, websocket)]

\* MessageResponse with a fault: owner and room take each other's value
MessageResponse_Swapped(new_message, user, room) ==
    [id |-> new_message.id, owner |-> room, room |-> user,
     content |-> new_message.content]

\* MessageResponse with a fault: the id is that of the table's first row
MessageResponse_StaleId(new_message, user, room) ==
    [id |-> 1, owner |-> user, room |-> room, content |-> new_message.content]

\* the wire payload of a message: the dict of lines 220-226 (created_at left out)
MessageResponse(new_message, user, room) ==
    [id |-> new_message.id, owner |-> user, room |-> room,
     content |-> new_message.content]

\* the wire payload of a room: the dict of lines 256-260
RoomResponse(new_room) ==
    [id |-> new_room.id, name |-> new_room.name, owner |-> new_room.owner]

\* Message(content=data, owner=user.id, room=room.id) after commit and refresh
NewMessage(messages, data, user, room) ==
    [id |-> Len(messages) + 1, content |-> data, owner |-> user, room |-> room]

\* Room(name=data, owner=user.id) after commit and refresh
NewRoom(rooms, data, user) ==
    [id |-> Len(rooms) + 1, name |-> data, owner |-> user]

\* Column(String, unique=True) on room.name: the commit of a duplicate fails
NameTaken(rooms, name) ==
    \E i \in 1 .. Len(rooms) : rooms[i].name = name

\* ---- session state -------------------------------------------------------
NoResponse == [id |-> None]

InitSession ==
    [pc |-> "init", kind |-> "none", room_id |-> None, user_id |-> None,
     room |-> None, user |-> None, accepted |-> FALSE, data |-> "",
     response |-> NoResponse, idx |-> 0, target |-> None, exit |-> "none"]

\* history of a session: missing = a row it names was absent when it started;
\* active = it reached the receive loop; received / committed = inbound texts
\* taken / rows committed; unregistered = list.remove calls; closedAt = rows of
\* the message table when its except clause ran; sendFailed = the connection
\* whose send_text raised in its fan-out
InitHist ==
    [missing |-> FALSE, active |-> FALSE, received |-> 0, committed |-> 0,
     unregistered |-> 0, closedAt |-> -1, sendFailed |-> None]

\* history of a session's latest fan-out: seq = which of its inbound texts it is
\* for; stable = the connections registered under the group ever since it
\* started; called = the connections send_text was called on; ended = the
\* loop ran to its end; joined / left = the connections appended to / removed
\* from the group while it ran
NoFan ==
    [running |-> FALSE, seq |-> 0, stable |-> {}, called |-> {}, ended |-> FALSE,
     joined |-> {}, left |-> {}]

Active(s) == sess[s].pc \in {"receive", "sending"}

\* the registry and group key of a session
Group(st) == IF st.kind = "message" THEN st.room_id ELSE st.user_id
Registry(st) ==
    IF st.kind = "message" THEN active_connections ELSE active_connections_rooms
Members(st) ==
    IF Group(st) \in DOMAIN Registry(st) THEN Registry(st)[Group(st)] ELSE << >>

StartFan(s, st) ==
    [running |-> TRUE, seq |-> hist[s].received + 1,
     stable |-> Range(Members(st)), called |-> {}, ended |-> FALSE,
     joined |-> {}, left |-> {}]

Init ==
    /\ room_table = InitRooms
    /\ message_table = << >>
    /\ active_connections = << >>
    /\ active_connections_rooms = << >>
    /\ sess = [s \in Sessions |-> InitSession]
    /\ open = [s \in Sessions |-> FALSE]
    /\ sent = << >>
    /\ fan = [s \in Sessions |-> NoFan]
    /\ hist = [s \in Sessions |-> InitHist]
    /\ rest = {}


\* ---- steps shared by the two handlers ------------------------------------
\* raise: the coroutine ends with the exception exc (its frame, and with it the
\* locals data, response and the loop's iterator, is gone)
Raise(st, exc) ==
    [st EXCEPT !.pc = "done", !.exit = exc, !.target = None, !.idx = 0,
               !.data = "", !.response = NoResponse]

\* ForNext with a fault: the end test is off by one, the last item comes twice
ForNext_OffByOne(st, list) ==
    IF st.idx <= Len(list) /\ Len(list) > 0
    THEN [st EXCEPT !.pc = "sending",
                    !.target = list[IF st.idx < Len(list) THEN st.idx + 1 ELSE Len(list)],
                    !.idx = @ + 1]
    ELSE [st EXCEPT !.pc = "receive", !.target = None, !.idx = 0,
                    !.data = "", !.response = NoResponse]

\* the for statement asks the list iterator for its next item: the item at
\* the iterator's index in the list as it is now, or the end of the loop (the
\* iterator is dropped; data and response are assigned anew before any read)
ForNext(st, list) ==
    IF st.idx < Len(list)
    THEN [st EXCEPT !.pc = "sending", !.target = list[st.idx + 1], !.idx = @ + 1]
    ELSE [st EXCEPT !.pc = "receive", !.target = None, !.idx = 0,
                    !.data = "", !.response = NoResponse]

\* history of the fan-outs that lose websocket from their group
Shrunk(f, kind, key, websocket) ==
    [t \in Sessions |->
        IF f[t].running /\ sess[t].kind = kind /\ Group(sess[t]) = key
        THEN [f[t] EXCEPT !.stable = @ \ {websocket}, !.left = @ \cup {websocket}]
        ELSE f[t]]

\* history of the fan-outs that gain websocket in their group
Grown(f, kind, key, websocket) ==
    [t \in Sessions |->
        IF f[t].running /\ sess[t].kind = kind /\ Group(sess[t]) = key
        THEN [f[t] EXCEPT !.joined = @ \cup {websocket}]
        ELSE f[t]]

SetRegistry(st, d) ==
    IF st.kind = "message"
    THEN active_connections' = d /\ UNCHANGED active_connections_rooms
    ELSE active_connections_rooms' = d /\ UNCHANGED active_connections

\* for connection in d[key]: await connection.send_text(json.dumps(response))
\* from the position st up to the next await (or to the end of the loop)
Loop(s, st, f) ==
    LET nxt == ForNext(st, Members(st)) IN
    /\ sess' = [sess EXCEPT ![s] = nxt]
    /\ IF nxt.pc = "sending"
       THEN /\ sent' = Append(sent, [from |-> s, to |-> nxt.target,
                                     kind |-> st.kind, data |-> st.data,
                                     seq |-> f.seq, group |-> Group(st),
                                     listed |-> nxt.target \in Range(Members(st)),
                                     payload |-> st.response])
            /\ fan' = [fan EXCEPT ![s] = [f EXCEPT !.called = @ \cup {nxt.target}]]
       ELSE /\ sent' = sent
            /\ fan' = [fan EXCEPT ![s] = [f EXCEPT !.running = FALSE, !.ended = TRUE]]

\* except WebSocketDisconnect: d[key].remove(websocket)
Except(s, h) ==
    LET st == sess[s] IN
    IF CanRemove(Registry(st), Group(st), s)
    THEN /\ SetRegistry(st, Unregister(Registry(st), Group(st), s))
         /\ sess' = [sess EXCEPT ![s] = Raise(st, "WebSocketDisconnect")]
         /\ fan' = [Shrunk(fan, st.kind, Group(st), s) EXCEPT ![s].running = FALSE]
         /\ hist' = [h EXCEPT ![s].unregistered = @ + 1,
                              ![s].closedAt = Len(message_table)]
    ELSE /\ UNCHANGED << active_connections, active_connections_rooms >>
         /\ sess' = [sess EXCEPT ![s] = Raise(st, "ValueError")]
         /\ fan' = [fan EXCEPT ![s].running = FALSE]
         /\ hist' = h

\* an exception no except clause catches ends the coroutine as it is
Uncaught(s, exc, h) ==
    /\ sess' = [sess EXCEPT ![s] = Raise(sess[s], exc)]
    /\ fan' = [fan EXCEPT ![s].running = FALSE]
    /\ hist' = h
    /\ UNCHANGED << active_connections, active_connections_rooms >>

\* ---- websocket_endpoint: /ws/{room_id}/{user_id} -------------------------
\* the lookups, the two 404s, and the call of websocket.accept()
EndpointConnect(s, room_id, user_id) ==
    /\ sess[s].pc = "init"
    /\ LET room == RoomFirst(room_table, room_id)
           user == UserFirst(user_id)
           st == [sess[s] EXCEPT !.kind = "message", !.room_id = room_id,
                                 !.user_id = user_id, !.room = room, !.user = user]
       IN  sess' = [sess EXCEPT ![s] =
                IF room = None \/ user = None
                THEN Raise(st, "HTTPException")
                ELSE [st EXCEPT !.pc = "accept"]]
    /\ hist' = [hist EXCEPT ![s].missing =
                    \/ room_id \notin { room_table[i].id : i \in 1 .. Len(room_table) }
                    \/ user_id \notin InitUsers]
    /\ UNCHANGED << rest, room_table, message_table, active_connections,
                    active_connections_rooms, open, sent, fan >>

\* accept() returns; the connection is appended; receive_text() is awaited
EndpointAccepted(s) ==
    /\ sess[s].pc = "accept"
    /\ sess[s].kind = "message"
    /\ sess' = [sess EXCEPT ![s].accepted = TRUE, ![s].pc = "receive"]
    /\ active_connections' = Register(active_connections, sess[s].room_id, s)
    /\ open' = [open EXCEPT ![s] = TRUE]
    /\ hist' = [hist EXCEPT ![s].active = TRUE]
    /\ fan' = Grown(fan, "message", sess[s].room_id, s)
    /\ UNCHANGED << rest, room_table, message_table, active_connections_rooms, sent >>

\* receive_text() returns data; the message is added and committed; the
\* response is built and the fan-out runs up to its first send
EndpointReceive(s, data) ==
    /\ sess[s].pc = "receive"
    /\ sess[s].kind = "message"
    /\ open[s]
    /\ Len(message_table) < MaxMessages
    /\ LET new_message == NewMessage(message_table, data, sess[s].user, sess[s].room)
           st == [sess[s] EXCEPT !.data = data, !.idx = 0,
                     !.response = MessageResponse(new_message, sess[s].user, sess[s].room)]
       IN  /\ message_table' = Append(message_table, new_message)
           /\ Loop(s, st, StartFan(s, st))
    /\ hist' = [hist EXCEPT ![s].received = @ + 1, ![s].committed = @ + 1]
    /\ UNCHANGED << rest, room_table, active_connections, active_connections_rooms, open >>

\* receive_text() returns data and db.commit() raises: the store is unavailable
EndpointCommitFails(s, data) ==
    /\ sess[s].pc = "receive"
    /\ sess[s].kind = "message"
    /\ open[s]
    /\ sess' = [sess EXCEPT ![s] = Raise(sess[s], "StoreError")]
    /\ hist' = [hist EXCEPT ![s].received = @ + 1]
    /\ open' = [open EXCEPT ![s] = FALSE]
    /\ UNCHANGED << rest, room_table, message_table, active_connections,
                    active_connections_rooms, sent, fan >>

\* ---- websocket_rooms: /ws/rooms/{user_id}/ -------------------------------
\* the lookup and the call of websocket.accept()
RoomsConnect(s, user_id) ==
    /\ sess[s].pc = "init"
    /\ sess' = [sess EXCEPT ![s] =
                  [@ EXCEPT !.kind = "feed", !.user_id = user_id,
                            !.user = UserFirst(user_id), !.pc = "accept"]]
    /\ hist' = [hist EXCEPT ![s].missing = user_id \notin InitUsers]
    /\ UNCHANGED << rest, room_table, message_table, active_connections,
                    active_connections_rooms, open, sent, fan >>

\* accept() returns; the 404; the connection is appended; receive_text() is awaited
RoomsAccepted(s) ==
    /\ sess[s].pc = "accept"
    /\ sess[s].kind = "feed"
    /\ IF sess[s].user = None
       THEN /\ sess' = [sess EXCEPT ![s] = Raise([@ EXCEPT !.accepted = TRUE], "HTTPException")]
            /\ UNCHANGED << active_connections_rooms, open, hist, fan >>
       ELSE /\ sess' = [sess EXCEPT ![s].accepted = TRUE, ![s].pc = "receive"]
            /\ active_connections_rooms' =
                   Register(active_connections_rooms, sess[s].user_id, s)
            /\ open' = [open EXCEPT ![s] = TRUE]
            /\ hist' = [hist EXCEPT ![s].active = TRUE]
            /\ fan' = Grown(fan, "feed", sess[s].user_id, s)
    /\ UNCHANGED << rest, room_table, message_table, active_connections, sent >>

\* receive_text() returns data; the room is added and committed; the response
\* is built and the fan-out runs up to its first send
RoomsReceive(s, data) ==
    /\ sess[s].pc = "receive"
    /\ sess[s].kind = "feed"
    /\ open[s]
    /\ ~NameTaken(room_table, data)
    /\ Len(room_table) < MaxRooms
    /\ LET new_room == NewRoom(room_table, data, sess[s].user)
           st == [sess[s] EXCEPT !.data = data, !.idx = 0,
                                 !.response = RoomResponse(new_room)]
       IN  /\ room_table' = Append(room_table, new_room)
           /\ Loop(s, st, StartFan(s, st))
    /\ hist' = [hist EXCEPT ![s].received = @ + 1, ![s].committed = @ + 1]
    /\ UNCHANGED << rest, message_table, active_connections, active_connections_rooms, open >>

\* receive_text() returns data and db.commit() raises: the name is taken
\* (IntegrityError on room.name) or the store is unavailable
RoomsCommitFails(s, data) ==
    /\ sess[s].pc = "receive"
    /\ sess[s].kind = "feed"
    /\ open[s]
    /\ sess' = [sess EXCEPT ![s] = Raise(sess[s], "StoreError")]
    /\ hist' = [hist EXCEPT ![s].received = @ + 1]
    /\ open' = [open EXCEPT ![s] = FALSE]
    /\ UNCHANGED << rest, room_table, message_table, active_connections,
                    active_connections_rooms, sent, fan >>

\* ---- the awaits both handlers share --------------------------------------
\* the client closes its side of an accepted connection
ClientClose(s) ==
    /\ Active(s)
    /\ open[s]
    /\ open' = [open EXCEPT ![s] = FALSE]
    /\ UNCHANGED << rest, room_table, message_table, active_connections,
                    active_connections_rooms, sess, sent, fan, hist >>

\* receive_text() raises WebSocketDisconnect: the except clause runs
ReceiveDisconnect(s) ==
    /\ sess[s].pc = "receive"
    /\ ~open[s]
    /\ Except(s, hist)
    /\ UNCHANGED << rest, room_table, message_table, open, sent >>

\* receive_text() raises something else (a frame that is not text: KeyError)
ReceiveError(s) ==
    /\ sess[s].pc = "receive"
    /\ open[s]
    /\ Uncaught(s, "TransportError", hist)
    /\ open' = [open EXCEPT ![s] = FALSE]
    /\ UNCHANGED << rest, room_table, message_table, sent >>

\* send_text() returns (also on a connection that went down after the frame
\* was handed over): the loop goes on to its next send or ends
SendReturns(s) ==
    /\ sess[s].pc = "sending"
    /\ Loop(s, sess[s], fan[s])
    /\ UNCHANGED << rest, room_table, message_table, active_connections,
                    active_connections_rooms, open, hist >>

\* send_text() on a connection that is down raises WebSocketDisconnect
SendDisconnect(s) ==
    /\ sess[s].pc = "sending"
    /\ ~open[sess[s].target]
    /\ Except(s, [hist EXCEPT ![s].sendFailed = sess[s].target])
    /\ open' = [open EXCEPT ![s] = FALSE]
    /\ UNCHANGED << rest, room_table, message_table, sent >>

\* send_text() on a connection that is down raises something else (RuntimeError)
SendError(s) ==
    /\ sess[s].pc = "sending"
    /\ ~open[sess[s].target]
    /\ Uncaught(s, "SendError", [hist EXCEPT ![s].sendFailed = sess[s].target])
    /\ open' = [open EXCEPT ![s] = FALSE]
    /\ UNCHANGED << rest, room_table, message_table, sent >>

\* ---- the request/response surface ----------------------------------------
\* the connections listed under key in the registry d
Listed(d, key) == IF key \in DOMAIN d THEN d[key] ELSE << >>

\* create_message with a fault: the new row is also pushed to the room's listeners
create_message_Broadcasts(content, owner, room_id) ==
    /\ RoomFirst(room_table, room_id) # None
    /\ UserFirst(owner) # None
    /\ Len(message_table) < MaxMessages
    /\ LET new_message == NewMessage(message_table, content, owner, room_id)
           list == Listed(active_connections, room_id)
       IN  /\ message_table' = Append(message_table, new_message)
           /\ rest' = rest \cup {[table |-> "message", id |-> new_message.id,
                                   listeners |-> Len(list)]}
           /\ sent' = sent \o [i \in 1 .. Len(list) |->
                                [from |-> None, to |-> list[i], kind |-> "message",
                                 data |-> content, seq |-> 0, group |-> room_id,
                                 listed |-> TRUE,
                                 payload |-> MessageResponse(new_message, owner, room_id)]]
    /\ UNCHANGED << room_table, active_connections, active_connections_rooms,
                    sess, open, fan, hist >>

\* POST /create/message/: the lookups, the two 404s, the commit; the row is
\* returned to the caller and nothing else is done with it
create_message(content, owner, room_id) ==
    /\ RoomFirst(room_table, room_id) # None
    /\ UserFirst(owner) # None
    /\ Len(message_table) < MaxMessages
    /\ LET new_message == NewMessage(message_table, content, UserFirst(owner),
                                     RoomFirst(room_table, room_id))
       IN  /\ message_table' = Append(message_table, new_message)
           /\ rest' = rest \cup {[table |-> "message", id |-> new_message.id,
                                   listeners |->
                                       Len(Listed(active_connections, room_id))]}
    /\ UNCHANGED << room_table, active_connections, active_connections_rooms,
                    sess, open, sent, fan, hist >>

\* POST /create/room/: the lookup, the 404, the commit (which fails on a name
\* that is taken); the row is returned to the caller
create_room(name, owner) ==
    /\ UserFirst(owner) # None
    /\ ~NameTaken(room_table, name)
    /\ Len(room_table) < MaxRooms
    /\ LET new_room == NewRoom(room_table, name, UserFirst(owner))
       IN  /\ room_table' = Append(room_table, new_room)
           /\ rest' = rest \cup {[table |-> "room", id |-> new_room.id,
                                   listeners |->
                                       Len(Listed(active_connections_rooms, owner))]}
    /\ UNCHANGED << message_table, active_connections, active_connections_rooms,
                    sess, open, sent, fan, hist >>

Next ==
    \/ \E s \in Sessions, room_id \in RoomIds, user_id \in UserIds :
            EndpointConnect(s, room_id, user_id)
    \/ \E s \in Sessions : EndpointAccepted(s)
    \/ \E s \in Sessions, data \in Texts : EndpointReceive(s, data)
    \/ \E s \in Sessions, data \in Texts : EndpointCommitFails(s, data)
    \/ \E s \in Sessions, user_id \in UserIds : RoomsConnect(s, user_id)
    \/ \E s \in Sessions : RoomsAccepted(s)
    \/ \E s \in Sessions, data \in Texts : RoomsReceive(s, data)
    \/ \E s \in Sessions, data \in Texts : RoomsCommitFails(s, data)
    \/ \E s \in Sessions : ClientClose(s)
    \/ \E s \in Sessions : ReceiveDisconnect(s)
    \/ \E s \in Sessions : ReceiveError(s)
    \/ \E s \in Sessions : SendReturns(s)
    \/ \E s \in Sessions : SendDisconnect(s)
    \/ \E s \in Sessions : SendError(s)
    \/ \E content \in RestTexts, owner \in RestOwners, room_id \in RoomIds :
            create_message(content, owner, room_id)
    \/ \E name \in RestTexts, owner \in RestOwners : create_room(name, owner)

Spec == Init /\ [][Next]_vars

\* ---- scheduling ----------------------------------------------------------
\* The event loop resumes a coroutine whose await has completed: accept() on a
\* connecting client, receive_text() on a connection that went down, and
\* send_text() on a connection whose client is up and reading. A send_text()
\* on a connection that is down, or whose client does not read, need not ever
\* complete; what clients send, and when they leave, is up to them.
Scheduled(s) ==
    /\ WF_vars(EndpointAccepted(s))
    /\ WF_vars(RoomsAccepted(s))
    /\ WF_vars(ReceiveDisconnect(s))
    /\ WF_vars(SendReturns(s) /\ open[sess[s].target])

FairSpec == Init /\ [][Next]_vars /\ \A s \in Sessions : Scheduled(s)

\* ---- the unregister statement on its own ---------------------------------
\* the lists a registry may hold: each connection at most once
Lists ==
    { q \in UNION { [1 .. n -> Sessions] : n \in 0 .. NumSessions } :
        \A i, j \in 1 .. Len(q) : i # j => q[i] # q[j] }

\* the registries over the group keys: some keys have a list, some have none
Registries(keys) == UNION { [K -> Lists] : K \in SUBSET keys }

\* d[key].remove(websocket) for any d, key and websocket: the dict lookup
\* raises KeyError, list.remove raises ValueError, or the item is removed
Remove(d, key, websocket) ==
    IF key \notin DOMAIN d THEN [d |-> d, raised |-> "KeyError"]
    ELSE IF IndexOf(d[key], websocket) = 0 THEN [d |-> d, raised |-> "ValueError"]
    ELSE [d |-> Unregister(d, key, websocket), raised |-> "none"]

\* any two registries in which each connection is listed at most once
UnregisterInit ==
    /\ active_connections \in Registries(RoomIds)
    /\ active_connections_rooms \in Registries(InitUsers)
    /\ \A c \in Sessions :
          Cardinality({ k \in DOMAIN active_connections :
                          c \in Range(active_connections[k]) })
          + Cardinality({ k \in DOMAIN active_connections_rooms :
                          c \in Range(active_connections_rooms[k]) }) <= 1
    /\ room_table = InitRooms
    /\ message_table = << >>
    /\ sess = [s \in Sessions |-> InitSession]
    /\ open = [s \in Sessions |-> FALSE]
    /\ sent = << >>
    /\ fan = [s \in Sessions |-> NoFan]
    /\ hist = [s \in Sessions |-> InitHist]
    /\ rest = {}

\* line 232: active_connections[room_id].remove(websocket)
EndpointUnregister(s, room_id) ==
    /\ sess[s].pc = "init"
    /\ LET r == Remove(active_connections, room_id, s) IN
       /\ active_connections' = r.d
       /\ sess' = [sess EXCEPT ![s] =
                     [Raise(@, r.raised) EXCEPT !.kind = "message", !.room_id = room_id]]
       /\ hist' = [hist EXCEPT ![s].unregistered = IF r.raised = "none" THEN 1 ELSE 0]
    /\ UNCHANGED << rest, room_table, message_table, active_connections_rooms,
                    open, sent, fan >>

\* line 265: active_connections_rooms[user_id].remove(websocket)
RoomsUnregister(s, user_id) ==
    /\ sess[s].pc = "init"
    /\ LET r == Remove(active_connections_rooms, user_id, s) IN
       /\ active_connections_rooms' = r.d
       /\ sess' = [sess EXCEPT ![s] =
                     [Raise(@, r.raised) EXCEPT !.kind = "feed", !.user_id = user_id]]
       /\ hist' = [hist EXCEPT ![s].unregistered = IF r.raised = "none" THEN 1 ELSE 0]
    /\ UNCHANGED << rest, room_table, message_table, active_connections,
                    open, sent, fan >>

UnregisterNext ==
    \/ \E s \in Sessions, room_id \in RoomIds : EndpointUnregister(s, room_id)
    \/ \E s \in Sessions, user_id \in InitUsers : RoomsUnregister(s, user_id)

UnregisterSpec == UnregisterInit /\ [][UnregisterNext]_vars


\* ---- properties ----------------------------------------------------------
InGroups(d, c) == \E k \in DOMAIN d : c \in Range(d[k])
Registered(c) == InGroups(active_connections, c) \/ InGroups(active_connections_rooms, c)
Rows(id) == { k \in 1 .. Len(message_table) : message_table[k].id = id }
RowIndex(id) == IF Rows(id) = {} THEN 0 ELSE CHOOSE k \in Rows(id) : TRUE
MessageSends == { i \in 1 .. Len(sent) : sent[i].kind = "message" }

\* C1: every payload the room-message channel sends is the payload of exactly
\* one committed row of the message table, whose owner, room and content are
\* the sending session's user id, room id and the inbound text; an inbound
\* text whose commit failed is never sent.
C1_BroadcastIsCommittedMessage ==
    \A i \in MessageSends :
        LET e == sent[i] IN
        /\ Cardinality(Rows(e.payload.id)) = 1
        /\ \A k \in Rows(e.payload.id) :
              message_table[k] = [id |-> e.payload.id, content |-> e.data,
                                  owner |-> sess[e.from].user_id,
                                  room |-> sess[e.from].room_id]
        /\ e.payload.owner = sess[e.from].user_id
        /\ e.payload.room = sess[e.from].room_id
        /\ e.payload.content = e.data
        /\ e.seq <= hist[e.from].committed

\* C1 witness: a committed message of user 2 in room 1 was sent to another connection
C1_Witness ==
    \E i \in MessageSends :
        /\ sent[i].to # sent[i].from
        /\ sent[i].payload.owner = 2
        /\ sent[i].payload.room = 1
        /\ Rows(sent[i].payload.id) # {}

\* C2: when a room-message fan-out has run to its end, every connection that
\* was registered under the room from its start to its end had send_text
\* called on it.
C2_AllStableSent ==
    \A s \in Sessions :
        (fan[s].ended /\ sess[s].kind = "message") => fan[s].stable \subseteq fan[s].called

\* C3: when a room-message fan-out has run to its end, the sender's own
\* connection is among those send_text was called on.
C3_Echo ==
    \A s \in Sessions :
        (fan[s].ended /\ sess[s].kind = "message") => s \in fan[s].called

\* C4: a session whose send to another, dead connection failed during its
\* fan-out stays Active and stays registered.
C4_SendFailureSwallowed ==
    \A s \in Sessions :
        hist[s].sendFailed \notin {None, s} => (Active(s) /\ Registered(s))

\* C5: a session whose persistence call failed is Closed, its connection is in
\* no group, and nothing was sent for the failed write.
C5_StoreErrorUnregisters ==
    \A s \in Sessions :
        sess[s].exit = "StoreError" =>
            /\ sess[s].pc = "done"
            /\ ~Registered(s)
            /\ \A i \in 1 .. Len(sent) :
                  sent[i].from = s => sent[i].seq < hist[s].received

\* C6: a session that named a missing Room or User when it started is never
\* Active, its connection is in neither registry and was never removed from
\* one, it takes no inbound text, commits no row and sends nothing.
C6_NotFoundNeverActive ==
    \A s \in Sessions :
        hist[s].missing =>
            /\ ~Active(s)
            /\ ~hist[s].active
            /\ ~Registered(s)
            /\ hist[s].unregistered = 0
            /\ hist[s].received = 0
            /\ hist[s].committed = 0
            /\ \A i \in 1 .. Len(sent) : sent[i].from # s /\ sent[i].to # s

\* C6 witness: a room-message session was refused for a missing room and a
\* feed session for a missing user
C6_Witness ==
    \E s, t \in Sessions :
        /\ sess[s].pc = "done" /\ sess[s].kind = "message"
        /\ sess[s].room = None /\ hist[s].missing
        /\ sess[t].pc = "done" /\ sess[t].kind = "feed"
        /\ sess[t].user = None /\ hist[t].missing

\* C7: every connection in a group of either registry belongs to a session
\* that is Active.
C7_RegisteredOnlyWhileActive ==
    \A s \in Sessions : Registered(s) => Active(s)

\* C8: a session that was Active and ended on a transport disconnect or a
\* transport error has removed its connection from its group exactly once.
C8_UnregistersExactlyOnce ==
    \A s \in Sessions :
        ( /\ sess[s].pc = "done"
          /\ hist[s].active
          /\ sess[s].exit \in {"WebSocketDisconnect", "TransportError"} )
        => hist[s].unregistered = 1

\* C9: once a room-message session has observed its disconnect, its connection
\* is in no group, and no message committed afterwards is sent to it.
C9_NothingAfterDisconnect ==
    \A s \in Sessions :
        (hist[s].closedAt >= 0 /\ sess[s].kind = "message") =>
            /\ ~Registered(s)
            /\ \A i \in MessageSends :
                  sent[i].to = s => RowIndex(sent[i].payload.id) <= hist[s].closedAt

\* C9 witness: A and B shared a room (B sent A a message), A observed its
\* disconnect, and a message B committed afterwards was sent to B
C9_Witness ==
    \E a, b \in Sessions :
        /\ a # b
        /\ sess[a].kind = "message" /\ sess[b].kind = "message"
        /\ sess[a].room_id = sess[b].room_id
        /\ hist[a].closedAt >= 0
        /\ \E j \in MessageSends : sent[j].from = b /\ sent[j].to = a
        /\ \E i \in MessageSends :
              /\ sent[i].from = b /\ sent[i].to = b
              /\ RowIndex(sent[i].payload.id) > hist[a].closedAt

\* C10: of two inbound texts of one room-message session, the earlier one's
\* row is committed first, and a connection that is sent both payloads is
\* sent the earlier one's first.
C10_SessionOrder ==
    \A i, j \in MessageSends :
        (sent[i].from = sent[j].from /\ sent[i].seq < sent[j].seq) =>
            /\ RowIndex(sent[i].payload.id) > 0
            /\ RowIndex(sent[i].payload.id) < RowIndex(sent[j].payload.id)
            /\ (sent[i].to = sent[j].to => i < j)

\* C10 witness: one session's two messages were both sent to another connection
C10_Witness ==
    \E i, j \in MessageSends :
        /\ sent[i].from = sent[j].from
        /\ sent[i].to = sent[j].to
        /\ sent[i].to # sent[i].from
        /\ sent[i].seq < sent[j].seq

\* C20: no payload sent to a connection is that of a row committed by
\* create_message or create_room, whoever was listed for the row's room or for
\* its owner's feed when it was committed.
C20_RestWritesNotFannedOut ==
    \A i \in 1 .. Len(sent) :
        \A r \in rest :
            ~ ( /\ r.id = sent[i].payload.id
                /\ r.table = (IF sent[i].kind = "message" THEN "message" ELSE "room") )

\* C20 witness: a message and a room were each posted while a connection was
\* listed for the room / for the owner's feed, and the channels have sent payloads
C20_Witness ==
    /\ \E r \in rest : r.table = "message" /\ r.listeners > 0
    /\ \E r \in rest : r.table = "room" /\ r.listeners > 0
    /\ Len(sent) > 0

\* C11: two messages of one room that are both sent to a connection are sent
\* to it in the order their rows were committed, whichever sessions sent them.
C11_RoomCommitOrder ==
    \A i, j \in MessageSends :
        ( /\ sent[i].payload.room = sent[j].payload.room
          /\ sent[i].to = sent[j].to
          /\ RowIndex(sent[i].payload.id) < RowIndex(sent[j].payload.id) )
        => i < j

\* C12: no payload is sent twice to the same connection, and a fan-out that is
\* suspended in a send is suspended on a connection, whatever was appended to
\* or removed from its group meanwhile.
C12_AtMostOncePerConnection ==
    /\ \A i, j \in 1 .. Len(sent) :
          ( /\ i # j
            /\ sent[i].kind = sent[j].kind
            /\ sent[i].payload.id = sent[j].payload.id )
          => sent[i].to # sent[j].to
    /\ \A s \in Sessions :
          sess[s].pc = "sending" => sess[s].target \in Sessions

\* C12 witness: one fan-out ran to its end after a connection joined its group
\* meanwhile, another after a connection left its group meanwhile
C12_Witness ==
    \E s, t \in Sessions :
        /\ fan[s].ended /\ fan[s].joined # {}
        /\ fan[t].ended /\ fan[t].left # {}

\* C13: every send_text call is on a connection that is listed under the
\* sender's group when the call is made, and that connection's session was
\* registered in the same registry under that same group.
C13_OnlyGroupMembersAreSent ==
    \A i \in 1 .. Len(sent) :
        LET e == sent[i] IN
        /\ e.listed
        /\ e.group = Group(sess[e.from])
        /\ hist[e.to].active
        /\ sess[e.to].kind = e.kind
        /\ Group(sess[e.to]) = e.group

\* C13 witness: two feed connections are listed under different users and one
\* of the two sessions has sent a payload
C13_Witness ==
    \E s, t \in Sessions :
        /\ sess[s].kind = "feed" /\ sess[t].kind = "feed"
        /\ sess[s].user_id # sess[t].user_id
        /\ InGroups(active_connections_rooms, s)
        /\ InGroups(active_connections_rooms, t)
        /\ \E i \in 1 .. Len(sent) : sent[i].from = s

AtMostOnceIn(d, c) ==
    \A k1, k2 \in DOMAIN d :
        \A i \in 1 .. Len(d[k1]), j \in 1 .. Len(d[k2]) :
            (d[k1][i] = c /\ d[k2][j] = c) => (k1 = k2 /\ i = j)

\* C14: within each registry a connection is in at most one group's list and
\* at most once in it.
C14_OneGroupOnce ==
    \A c \in Sessions :
        /\ AtMostOnceIn(active_connections, c)
        /\ AtMostOnceIn(active_connections_rooms, c)

\* C14 witness: the feed registry holds two groups, each with a connection
C14_Witness ==
    \E k1, k2 \in DOMAIN active_connections_rooms :
        /\ k1 # k2
        /\ Len(active_connections_rooms[k1]) > 0
        /\ Len(active_connections_rooms[k2]) > 0

Without(list, c) == SelectSeq(list, LAMBDA x : x # c)

\* a registry of the given kind goes from d to dn only by a session of that
\* kind appending its own connection to its own group as it starts, or taking
\* its own connection out of its own group as it ends
OwnChange(d, dn, kind) ==
    \/ dn = d
    \/ \E s \in Sessions :
          LET k == Group(sess[s]) IN
          /\ sess[s].kind = kind
          /\ DOMAIN dn = DOMAIN d \cup {k}
          /\ \A j \in DOMAIN d : j # k => dn[j] = d[j]
          /\ \/ /\ sess[s].pc = "accept"
                /\ sess'[s].pc = "receive"
                /\ dn[k] = Append(Listed(d, k), s)
             \/ /\ Active(s)
                /\ sess'[s].pc = "done"
                /\ k \in DOMAIN d
                /\ dn[k] = Without(d[k], s)

\* C15: each registry changes only by a session of its own channel adding its
\* own connection at start or removing its own connection at end; a step in
\* which a session stays Active (receive, commit, fan-out) changes neither.
C15_OnlyOwnAddAndRemove ==
    [][ /\ OwnChange(active_connections, active_connections', "message")
        /\ OwnChange(active_connections_rooms, active_connections_rooms', "feed")
        /\ \A s \in Sessions :
              (sess'[s] # sess[s] /\ Active(s) /\ sess'[s].pc \in {"receive", "sending"})
              => UNCHANGED << active_connections, active_connections_rooms >>
      ]_vars

\* C15 witness: a session has removed its connection and a fan-out has run to
\* its end
C15_Witness ==
    \E s, t \in Sessions : hist[s].unregistered = 1 /\ fan[t].ended

\* C16: a session that was refused with the 404 was never accepted.
C16_RejectedNeverAccepted ==
    \A s \in Sessions : sess[s].exit = "HTTPException" => ~sess[s].accepted

\* C19: when a feed fan-out has run to its end, the payload is that of a
\* committed room named like the inbound text and owned by the session's user,
\* and every connection listed under the user's feed from its start to its
\* end, the sender included, had send_text called on it.
C19_FeedFanOut ==
    /\ \A i \in 1 .. Len(sent) :
          sent[i].kind = "feed" =>
              \E k \in 1 .. Len(room_table) :
                  /\ room_table[k] = [id |-> sent[i].payload.id, name |-> sent[i].data,
                                      owner |-> sess[sent[i].from].user_id]
                  /\ sent[i].payload = room_table[k]
    /\ \A s \in Sessions :
          (fan[s].ended /\ sess[s].kind = "feed") =>
              /\ fan[s].stable \subseteq fan[s].called
              /\ s \in fan[s].called

\* C17: while a fan-out runs, a connection that is listed under its group and
\* has not been sent the payload yet is sent it, unless it leaves the group or
\* the fan-out ends first; a send to another connection that never completes
\* does not keep it waiting for ever.
C17_SlowRecipientDoesNotBlock ==
    \A s, c \in Sessions :
        (fan[s].running /\ c \in fan[s].stable /\ c \notin fan[s].called)
            ~> (c \in fan[s].called \/ c \notin fan[s].stable \/ ~fan[s].running)

====
